---- MODULE Spec2Model ----
(***************************************************************************)
(* A model of the shopping-list backend (backend/app): the request         *)
(* handlers of main.py over the tables of models.py, and the recipe        *)
(* scraper of services/recipe_scraper.py.                                  *)
(*                                                                         *)
(* Representation.                                                         *)
(*  - A Python str is a sequence of one-character strings, so that strip,  *)
(*    lower, split and the numeric parser are computed character by        *)
(*    character.  An Optional[str] that is None is the value None below.   *)
(*  - A float quantity is an integer number of 1/QScale units.  Every      *)
(*    quantity the model uses is such a dyadic rational of small           *)
(*    magnitude, on which IEEE-754 double +, - and * are exact, so the     *)
(*    integer arithmetic below is the arithmetic of the code on these      *)
(*    values.  round(x, 2) is kept in hundredths.                          *)
(*  - A uuid primary key is a number drawn from a per-table counter.       *)
(*  - Columns no handler reads back (timestamps, instructions,             *)
(*    source_url, the id of a MealPlanEntry) are left out.                 *)
(*  - `last` is the last request with its response.  `sessions` holds the  *)
(*    database sessions of requests in flight; it is empty wherever the    *)
(*    requests are served one at a time.                                   *)
(***************************************************************************)
EXTENDS Integers, Sequences, FiniteSets, TLC

VARIABLES recipes, inventory, plans, nextId, last, sessions

vars == <<recipes, inventory, plans, nextId, last, sessions>>

-----------------------------------------------------------------------------
(* Python values *)

\* None, as the value of an Optional[str]; no str equals it.
None == <<"None">>

\* None, as the value of an Optional[date].
NoDate == "None"

\* bool(s) of an Optional[str]: None and "" are falsy.
Truthy(s) == s # None /\ s # <<>>

\* `a or b` on Optional[str].
OrElse(a, b) == IF Truthy(a) THEN a ELSE b

\* `a or b` on Optional[date].
OrElseDate(a, b) == IF a # NoDate THEN a ELSE b

\* One unit of float quantity is 1/QScale.
QScale == 256

UpperLetters ==
  <<"A","B","C","D","E","F","G","H","I","J","K","L","M",
    "N","O","P","Q","R","S","T","U","V","W","X","Y","Z">>

LowerLetters ==
  <<"a","b","c","d","e","f","g","h","i","j","k","l","m",
    "n","o","p","q","r","s","t","u","v","w","x","y","z">>

UpperSet == {UpperLetters[i] : i \in 1..26}

LowerTable ==
  [c \in UpperSet |-> LowerLetters[CHOOSE i \in 1..26 : UpperLetters[i] = c]]

LowerChar(c) == IF c \in UpperSet THEN LowerTable[c] ELSE c

\* str.lower()
Lower(s) == [i \in 1..Len(s) |-> LowerChar(s[i])]

IsSpace(c) == c \in {" ", "\t", "\n"}

RECURSIVE LStrip(_)
LStrip(s) ==
  IF s # <<>> /\ IsSpace(Head(s)) THEN LStrip(Tail(s)) ELSE s

RECURSIVE RStrip(_)
RStrip(s) ==
  IF s # <<>> /\ IsSpace(s[Len(s)])
  THEN RStrip(SubSeq(s, 1, Len(s) - 1))
  ELSE s

\* str.strip()
Strip(s) == RStrip(LStrip(s))

NormalizeNameNoStrip(name) == Lower(name)

NormalizeNameNoLower(name) == Strip(name)

\* main.normalize_name
normalize_name(name) == Lower(Strip(name))

Abs(x) == IF x < 0 THEN -x ELSE x

-----------------------------------------------------------------------------
(* Tables *)

\* The rows of one table, in primary-key order.
RECURSIVE ById(_)
ById(rows) ==
  IF rows = {} THEN <<>>
  ELSE LET r == CHOOSE x \in rows : \A y \in rows : x.id <= y.id
       IN <<r>> \o ById(rows \ {r})

\* db.get(Recipe, id): the row, or the empty set for None.
GetRecipe(id) == {r \in recipes : r.id = id}

\* db.query(InventoryItem).filter_by(normalized_name=...)
ItemsNamed(inv, normalized) == {it \in inv : it.normalized_name = normalized}

\* db.query(MealPlan).filter(MealPlan.week_start == week_start)
PlansOfWeek(ps, week) == {p \in ps : p.week_start = week}

\* The state after create_app(): empty tables.
Init ==
  /\ recipes = {}
  /\ inventory = {}
  /\ plans = {}
  /\ nextId = [recipe |-> 1, item |-> 1, plan |-> 1]
  /\ last = [op |-> "none"]
  /\ sessions = <<>>

-----------------------------------------------------------------------------
(* POST /recipes *)

\* The RecipeIngredient row of one IngredientPayload.
IngredientRow(ing) ==
  [name |-> ing.name,
   normalized_name |-> normalize_name(ing.name),
   quantity |-> ing.quantity,
   unit |-> ing.unit]

\* The Recipe row create_recipe stores for a payload.
RecipeRow(id, payload) ==
  [id |-> id,
   title |-> payload.title,
   ingredients |-> [i \in 1..Len(payload.ingredients) |->
                      IngredientRow(payload.ingredients[i])]]

create_recipe(payload) ==
  LET row == RecipeRow(nextId.recipe, payload) IN
  /\ recipes' = recipes \cup {row}
  /\ nextId' = [nextId EXCEPT !.recipe = @ + 1]
  /\ last' = [op |-> "create_recipe", status |-> 201, body |-> row]
  /\ UNCHANGED <<inventory, plans>>

-----------------------------------------------------------------------------
(* POST /inventory *)

MergedQuantityOverwrite(old, added) == added

\* existing.quantity += payload.quantity
MergedQuantity(old, added) == old + added

\* The row add_inventory_item leaves for a payload: the merged existing row,
\* or a new one.
AddInventoryRow(inv, id, payload) ==
  LET normalized == normalize_name(payload.name)
      found == ItemsNamed(inv, normalized)
  IN IF found # {}
     THEN LET existing == CHOOSE it \in found : TRUE IN
          [existing EXCEPT
             !.quantity = MergedQuantity(@, payload.quantity),
             !.unit = OrElse(payload.unit, @),
             !.expires_on = OrElseDate(payload.expires_on, @)]
     ELSE [id |-> id,
           name |-> payload.name,
           normalized_name |-> normalized,
           quantity |-> payload.quantity,
           unit |-> payload.unit,
           expires_on |-> payload.expires_on]

\* one_or_none() raises MultipleResultsFound on two matching rows.
add_inventory_item(payload) ==
  LET found == ItemsNamed(inventory, normalize_name(payload.name))
      row == AddInventoryRow(inventory, nextId.item, payload)
  IN IF Cardinality(found) > 1
     THEN /\ last' = [op |-> "add_inventory", payload |-> payload, status |-> 500]
          /\ UNCHANGED <<recipes, inventory, plans, nextId>>
     ELSE /\ inventory' = (inventory \ found) \cup {row}
          /\ nextId' = IF found = {} THEN [nextId EXCEPT !.item = @ + 1] ELSE nextId
          /\ last' = [op |-> "add_inventory", payload |-> payload,
                      status |-> 201, body |-> row]
          /\ UNCHANGED <<recipes, plans>>

-----------------------------------------------------------------------------
(* POST /inventory/{item_id}/consume *)

RemovedWhenNegative(quantity) == quantity < 0

\* if item.quantity <= 0: db.delete(item)
Removed(quantity) == quantity <= 0

consume_inventory(item_id, quantity) ==
  LET found == {it \in inventory : it.id = item_id} IN
  IF found = {}
  THEN /\ last' = [op |-> "consume_inventory", item_id |-> item_id,
                   quantity |-> quantity, status |-> 404]
       /\ UNCHANGED <<recipes, inventory, plans, nextId>>
  ELSE LET item == CHOOSE it \in found : TRUE
           left == item.quantity - quantity
       IN /\ inventory' = IF Removed(left)
                          THEN inventory \ {item}
                          ELSE (inventory \ {item}) \cup {[item EXCEPT !.quantity = left]}
          /\ last' = IF Removed(left)
                     THEN [op |-> "consume_inventory", item_id |-> item_id,
                           quantity |-> quantity, status |-> 200,
                           body |-> [id |-> item_id, name |-> item.name,
                                     quantity |-> None, removed |-> TRUE]]
                     ELSE [op |-> "consume_inventory", item_id |-> item_id,
                           quantity |-> quantity, status |-> 200,
                           body |-> [id |-> item.id, name |-> item.name,
                                     quantity |-> left, removed |-> FALSE]]
          /\ UNCHANGED <<recipes, plans, nextId>>

-----------------------------------------------------------------------------
(* POST /meal-plans *)

\* An entry row that keeps the letter case of the payload.
EntryRowAsGiven(entry) ==
  [day |-> entry.day,
   meal |-> entry.meal,
   recipe_id |-> entry.recipe_id,
   servings |-> entry.servings]

\* The MealPlanEntry row of one MealPlanEntryCreate.
EntryRow(entry) ==
  [day |-> Lower(entry.day),
   meal |-> Lower(entry.meal),
   recipe_id |-> entry.recipe_id,
   servings |-> entry.servings]

\* The index of the first entry whose recipe db.get does not find, or 0.
FirstMissing(entries) ==
  LET missing == {i \in 1..Len(entries) : GetRecipe(entries[i].recipe_id) = {}}
  IN IF missing = {} THEN 0 ELSE CHOOSE i \in missing : \A j \in missing : i <= j

\* uq_plan_day_meal: no two entries of one plan share (day, meal).
UniqueDayMeal(entries) ==
  \A i, j \in 1..Len(entries) :
    (entries[i].day = entries[j].day /\ entries[i].meal = entries[j].meal) => i = j

FlushedPlanNotCleared(ps, id, week) ==
  LET found == PlansOfWeek(ps, week) IN
  IF found # {}
  THEN CHOOSE p \in found : TRUE
  ELSE [id |-> id, week_start |-> week, entries |-> <<>>]

\* The plan row after `plan.entries.clear()` or `MealPlan(week_start=...)` and
\* db.flush(): the existing plan without entries, or a new empty plan.
FlushedPlan(ps, id, week) ==
  LET found == PlansOfWeek(ps, week) IN
  IF found # {}
  THEN [(CHOOSE p \in found : TRUE) EXCEPT !.entries = <<>>]
  ELSE [id |-> id, week_start |-> week, entries |-> <<>>]

\* The entries the loop has appended when it ends: all of them, or those
\* before the first missing recipe, where it raises.
AppendedEntries(entries) ==
  LET stop == FirstMissing(entries)
      n == IF stop = 0 THEN Len(entries) ELSE stop - 1
  IN [i \in 1..n |-> EntryRow(entries[i])]

\* The session's view of meal_plans when the handler ends.
WorkingPlans(ps, id, payload) ==
  LET plan == FlushedPlan(ps, id, payload.week_start) IN
  (ps \ PlansOfWeek(ps, payload.week_start))
    \cup {[plan EXCEPT !.entries = @ \o AppendedEntries(payload.entries)]}

\* How the handler ends: 404 from the loop, 500 from the IntegrityError of
\* db.commit(), else 201.
CreateMealPlanStatus(ps, payload) ==
  IF Cardinality(PlansOfWeek(ps, payload.week_start)) > 1 THEN 500
  ELSE IF FirstMissing(payload.entries) # 0 THEN 404
  ELSE IF ~UniqueDayMeal(AppendedEntries(payload.entries)) THEN 500
  ELSE 201

SessionCloseKeepsFlushed(before, working, committed) == working

\* get_db: `with SessionLocal() as session` closes the session when the
\* request ends, which rolls back whatever was flushed and not committed.
SessionClose(before, working, committed) ==
  IF committed THEN working ELSE before

create_meal_plan(payload) ==
  LET status == CreateMealPlanStatus(plans, payload)
      working == WorkingPlans(plans, nextId.plan, payload)
      isNew == PlansOfWeek(plans, payload.week_start) = {}
  IN /\ plans' = SessionClose(plans, working, status = 201)
     /\ nextId' = IF status = 201 /\ isNew
                  THEN [nextId EXCEPT !.plan = @ + 1] ELSE nextId
     /\ last' = IF status = 201
                THEN [op |-> "create_meal_plan", payload |-> payload, status |-> 201,
                      body |-> CHOOSE p \in PlansOfWeek(working, payload.week_start) : TRUE]
                ELSE [op |-> "create_meal_plan", payload |-> payload, status |-> status]
     /\ UNCHANGED <<recipes, inventory>>

-----------------------------------------------------------------------------
(* POST /meal-plans/{plan_id}/consume *)

FlooredNot(quantity) == quantity

\* if item.quantity < 0: item.quantity = 0
Floored(quantity) == IF quantity < 0 THEN 0 ELSE quantity

\* A planned consume that, like the direct one, deletes a row it empties.
ConsumeByNameDeleting(inv, normalized_name, quantity) ==
  {it \in inv : it.normalized_name # normalized_name \/ it.quantity > quantity}
    \cup {[it EXCEPT !.quantity = @ - quantity] :
            it \in {x \in inv : x.normalized_name = normalized_name
                                  /\ x.quantity > quantity}}

\* main.consume_inventory_by_name
consume_inventory_by_name(inv, normalized_name, quantity) ==
  LET found == ItemsNamed(inv, normalized_name) IN
  IF found = {} THEN inv
  ELSE LET item == CHOOSE it \in found : TRUE IN
       (inv \ {item}) \cup {[item EXCEPT !.quantity = Floored(@ - quantity)]}

\* The loop of consume_meal over entry.recipe.ingredients, from the i-th on.
RECURSIVE ConsumeIngredients(_, _, _, _)
ConsumeIngredients(inv, ingredients, servings, i) ==
  IF i > Len(ingredients) THEN inv
  ELSE ConsumeIngredients(
         consume_inventory_by_name(inv, ingredients[i].normalized_name,
                                   ingredients[i].quantity * servings),
         ingredients, servings, i + 1)

\* db.query(MealPlanEntry).filter(meal_plan_id, day, meal): plan and index.
EntriesAt(plan_id, day, meal) ==
  {pe \in UNION {{<<p, i>> : i \in 1..Len(p.entries)} : p \in plans} :
     /\ pe[1].id = plan_id
     /\ pe[1].entries[pe[2]].day = day
     /\ pe[1].entries[pe[2]].meal = meal}

consume_meal(plan_id, day, meal) ==
  LET req == [op |-> "consume_meal", plan_id |-> plan_id, day |-> day, meal |-> meal] IN
  IF ~Truthy(day) \/ ~Truthy(meal)
  THEN /\ last' = req @@ [status |-> 400]
       /\ UNCHANGED <<recipes, inventory, plans, nextId>>
  ELSE LET found == EntriesAt(plan_id, Lower(day), Lower(meal)) IN
       IF found = {}
       THEN /\ last' = req @@ [status |-> 404]
            /\ UNCHANGED <<recipes, inventory, plans, nextId>>
       ELSE IF Cardinality(found) > 1
       THEN /\ last' = req @@ [status |-> 500]
            /\ UNCHANGED <<recipes, inventory, plans, nextId>>
       ELSE LET pe == CHOOSE x \in found : TRUE
                entry == pe[1].entries[pe[2]]
                recipe == CHOOSE r \in recipes : r.id = entry.recipe_id
            IN /\ inventory' = ConsumeIngredients(inventory, recipe.ingredients,
                                                  entry.servings, 1)
               /\ last' = req @@ [status |-> 200, entry |-> entry]
               /\ UNCHANGED <<recipes, plans, nextId>>

-----------------------------------------------------------------------------
(* GET /shopping-list *)

\* key = (normalized_name, unit or "")
KeyOf(normalized_name, unit) == <<normalized_name, OrElse(unit, <<>>)>>

\* The (key, unit, quantity * servings) the two loops visit, in order: entry
\* by entry, ingredient by ingredient (an entry without recipe is skipped).
RECURSIVE Contributions(_, _, _)
Contributions(rs, entries, i) ==
  IF i > Len(entries) THEN <<>>
  ELSE LET recipe == {r \in rs : r.id = entries[i].recipe_id}
           ings == IF recipe = {} THEN <<>>
                   ELSE (CHOOSE r \in recipe : TRUE).ingredients
       IN [j \in 1..Len(ings) |->
             [key |-> KeyOf(ings[j].normalized_name, ings[j].unit),
              unit |-> ings[j].unit,
              quantity |-> ings[j].quantity * entries[i].servings]]
          \o Contributions(rs, entries, i + 1)

AccumulateOverwrite(old, quantity) == quantity

\* required[key] += ingredient.quantity * entry.servings
Accumulate(old, quantity) == old + quantity

\* `required` and `units` after the loops: one [key, quantity, unit] per key,
\* in the order the keys were first seen (a dict keeps insertion order).
RECURSIVE Required(_, _, _)
Required(acc, contribs, i) ==
  IF i > Len(contribs) THEN acc
  ELSE LET c == contribs[i]
           at == {k \in 1..Len(acc) : acc[k].key = c.key}
       IN IF at = {}
          THEN Required(Append(acc, [key |-> c.key,
                                     quantity |-> Accumulate(0, c.quantity),
                                     unit |-> c.unit]),
                        contribs, i + 1)
          ELSE LET k == CHOOSE x \in at : TRUE IN
               Required([acc EXCEPT ![k] = [key |-> c.key,
                                            quantity |-> Accumulate(@.quantity, c.quantity),
                                            unit |-> c.unit]],
                        contribs, i + 1)

\* `required` and `units` for the entries of a plan over the recipes rs.
DemandIn(rs, entries) == Required(<<>>, Contributions(rs, entries, 1), 1)

\* The demand of a stored plan.
Demand(plan) == DemandIn(recipes, plan.entries)

\* Sum of the quantities of a set of inventory rows.
RECURSIVE SumQuantity(_)
SumQuantity(rows) ==
  IF rows = {} THEN 0
  ELSE LET r == CHOOSE x \in rows : TRUE IN r.quantity + SumQuantity(rows \ {r})

AvailableByName(inv, key) ==
  SumQuantity({it \in inv : it.normalized_name = key[1]})

\* inventory_totals.get(key, 0.0)
Available(inv, key) ==
  SumQuantity({it \in inv : KeyOf(it.normalized_name, it.unit) = key})

\* round(x, 2) of x / QScale, in hundredths: to nearest, ties to even.
Round2(x) ==
  LET n == x * 100
      q == n \div QScale
      r == n % QScale
  IN IF 2 * r < QScale THEN q
     ELSE IF 2 * r > QScale THEN q + 1
     ELSE IF q % 2 = 0 THEN q ELSE q + 1

\* main.find_display_name
find_display_name(normalized_name) ==
  LET items == ItemsNamed(inventory, normalized_name)
      rs == ById(recipes)
      hits == {<<i, j>> \in UNION {{<<i, j>> : j \in 1..Len(rs[i].ingredients)}
                                      : i \in 1..Len(rs)} :
                 rs[i].ingredients[j].normalized_name = normalized_name}
  IN IF items # {} THEN (CHOOSE it \in items : TRUE).name
     ELSE IF hits # {}
     THEN LET h == CHOOSE x \in hits :
                     \A y \in hits : x[1] < y[1] \/ (x[1] = y[1] /\ x[2] <= y[2])
          IN rs[h[1]].ingredients[h[2]].name
     ELSE normalized_name

EmitAlways(deficit) == TRUE

EmitNonNegative(deficit) == deficit >= 0

\* if deficit > 0
Emit(deficit) == deficit > 0

\* The items of the response, for the demand from its i-th key on.
RECURSIVE ShoppingItems(_, _)
ShoppingItems(required, i) ==
  IF i > Len(required) THEN <<>>
  ELSE LET deficit == required[i].quantity - Available(inventory, required[i].key)
       IN (IF Emit(deficit)
           THEN <<[name |-> find_display_name(required[i].key[1]),
                   quantity |-> Round2(deficit),
                   unit |-> required[i].unit]>>
           ELSE <<>>)
          \o ShoppingItems(required, i + 1)

generate_shopping_list(week_start) ==
  LET found == PlansOfWeek(plans, week_start) IN
  /\ last' = IF found = {}
             THEN [op |-> "shopping_list", week_start |-> week_start, status |-> 404]
             ELSE IF Cardinality(found) > 1
             THEN [op |-> "shopping_list", week_start |-> week_start, status |-> 500]
             ELSE [op |-> "shopping_list", week_start |-> week_start, status |-> 200,
                   items |-> ShoppingItems(Demand(CHOOSE p \in found : TRUE), 1)]
  /\ UNCHANGED <<recipes, inventory, plans, nextId>>

-----------------------------------------------------------------------------
(* Requests *)

Egg == <<"E","g","g">>
EggLoose == <<" ","e","g","g"," ">>
Oil == <<"O","i","l">>
Salt == <<"s","a","l","t">>
cup == <<"c","u","p">>
Cup == <<"C","u","p">>
Mon == <<"M","o","n">>
mon == <<"m","o","n">>
Tue == <<"T","u","e">>
Dinner == <<"D","i","n","n","e","r">>
dinner == <<"d","i","n","n","e","r">>
Omelette == <<"O","m","e","l","e","t","t","e">>

Week1 == "2025-01-06"
Week2 == "2025-01-13"
Day1 == "2025-01-09"

\* The largest stock, in whole units, the inventory requests below build.
MaxWhole == 2

\* The number of inventory rows ever created.
MaxItemIds == 2

QtyCap == MaxWhole * QScale

\* One stored recipe: the same normalized name twice, under two units and for
\* one and a half units in all, and an ingredient no inventory request names.
OmelettePayload ==
  [title |-> Omelette,
   ingredients |-> <<[name |-> Egg, quantity |-> QScale, unit |-> Cup],
                     [name |-> EggLoose, quantity |-> QScale \div 2, unit |-> None],
                     [name |-> Salt, quantity |-> QScale, unit |-> None]>>]

\* One stored plan: the recipe on two days, for one and for two servings.
OmelettePlanPayload ==
  [week_start |-> Week1,
   entries |-> <<[day |-> Mon, meal |-> Dinner, recipe_id |-> 1, servings |-> 1],
                 [day |-> Tue, meal |-> Dinner, recipe_id |-> 1, servings |-> 2]>>]

InventoryPayloads ==
  [name : {Egg, EggLoose, Oil},
   quantity : {QScale, -QScale},
   unit : {None, cup},
   expires_on : {NoDate}]

ConsumeQuantities == {QScale, (MaxWhole + 1) * QScale}

-----------------------------------------------------------------------------
(* Inventory requests against a stored recipe and plan *)

\* The state after POST /recipes and POST /meal-plans of the payloads above.
InitInv ==
  /\ recipes = {RecipeRow(1, OmelettePayload)}
  /\ inventory = {}
  /\ plans = {[id |-> 1, week_start |-> Week1,
               entries |-> [i \in 1..2 |-> EntryRow(OmelettePlanPayload.entries[i])]]}
  /\ nextId = [recipe |-> 2, item |-> 1, plan |-> 2]
  /\ last = [op |-> "none"]
  /\ sessions = <<>>

AddInventory ==
  \E payload \in InventoryPayloads :
    /\ ItemsNamed(inventory, normalize_name(payload.name)) = {} => nextId.item <= MaxItemIds
    /\ Abs(AddInventoryRow(inventory, nextId.item, payload).quantity) <= QtyCap
    /\ add_inventory_item(payload)
    /\ UNCHANGED sessions

ConsumeInventory ==
  \E item_id \in 1..MaxItemIds, quantity \in ConsumeQuantities :
    /\ consume_inventory(item_id, quantity)
    /\ UNCHANGED sessions

ConsumeMeal ==
  \E plan_id \in {1, 2}, day \in {Mon, Tue, None}, meal \in {Dinner} :
    /\ consume_meal(plan_id, day, meal)
    /\ UNCHANGED sessions

NextInv == AddInventory \/ ConsumeInventory \/ ConsumeMeal

SpecInv == InitInv /\ [][NextInv]_vars

-----------------------------------------------------------------------------
(* Claims on the inventory requests *)

\* The recipe of a stored entry.
RecipeOf(entry) == CHOOSE r \in recipes : r.id = entry.recipe_id

\* The indices of the ingredients of an entry's recipe that name a row.
MatchingIngredients(entry, it) ==
  {j \in 1..Len(RecipeOf(entry).ingredients) :
     RecipeOf(entry).ingredients[j].normalized_name = it.normalized_name}

RECURSIVE SumRequested(_, _)
SumRequested(entry, js) ==
  IF js = {} THEN 0
  ELSE LET j == CHOOSE x \in js : TRUE IN
       RecipeOf(entry).ingredients[j].quantity * entry.servings
         + SumRequested(entry, js \ {j})

\* A step that is a planned-meal consume that found its entry.
ConsumeMealStep == last'.op = "consume_meal" /\ last'.status = 200

ConsumeInventoryStep ==
  /\ last'.op = "consume_inventory"
  /\ \E it \in inventory : it.id = last'.item_id

\* C3: a direct consume of q on a row with stock s succeeds; if q >= s the row
\* is deleted and the response has removed = true and the row's name; if
\* q < s the row stays with the same id and quantity s - q, which the response
\* reports with removed = false.
C3_DirectConsume ==
  [][ConsumeInventoryStep =>
       LET it == CHOOSE x \in inventory : x.id = last'.item_id
           q == last'.quantity
           s == it.quantity
       IN /\ last'.status = 200
          /\ IF q >= s
             THEN /\ ~ \E x \in inventory' : x.id = it.id
                  /\ last'.body.removed = TRUE
                  /\ last'.body.name = it.name
             ELSE /\ [it EXCEPT !.quantity = s - q] \in inventory'
                  /\ Cardinality(inventory') = Cardinality(inventory)
                  /\ last'.body.id = it.id
                  /\ last'.body.quantity = s - q
                  /\ last'.body.removed = FALSE]_vars

\* C3's case: more than any stock was consumed, and the row was removed.
C3_Witness ==
  /\ last.op = "consume_inventory"
  /\ last.status = 200
  /\ last.quantity > QtyCap
  /\ last.body.removed = TRUE
  /\ ~ \E it \in inventory : it.id = last.item_id

\* Trimmed and lowercased, as the claim words it.
TrimLower(name) == Lower(Strip(name))

UniqueNormalizedName ==
  Cardinality({TrimLower(it.name) : it \in inventory}) = Cardinality(inventory)

\* A step that is an add whose name, trimmed and lowercased, is that of a row.
MergingAddStep ==
  /\ last'.op = "add_inventory"
  /\ \E it \in inventory : TrimLower(it.name) = TrimLower(last'.payload.name)

\* C4: after every request the inventory holds no two rows with the same
\* trimmed, lowercased name (it starts empty); an add whose name matches a row that way returns that row's id with
\* the old quantity plus the added one, and creates no row.
C4_OneRowPerName ==
  [][/\ UniqueNormalizedName'
     /\ MergingAddStep =>
          LET it == CHOOSE x \in inventory :
                      TrimLower(x.name) = TrimLower(last'.payload.name)
          IN /\ last'.status = 201
             /\ last'.body.id = it.id
             /\ last'.body.quantity = it.quantity + last'.payload.quantity
             /\ last'.body \in inventory'
             /\ Cardinality(inventory') = Cardinality(inventory)]_vars

\* C4's case: " egg " was added to the row created as "Egg".
C4_Witness ==
  /\ last.op = "add_inventory"
  /\ last.status = 201
  /\ last.payload.name = EggLoose
  /\ last.body.name = Egg
  /\ last.body.quantity = 2 * QScale
  /\ Cardinality(inventory) = 2

-----------------------------------------------------------------------------
(* Meal-plan requests against a stored recipe *)

\* The longest entry list of a create-meal-plan payload.
MaxEntries == 2

\* Every sequence over S of length at most n.
SeqsUpTo(S, n) == UNION {[1..k -> S] : k \in 0..n}

\* Recipe 1 is stored; no recipe 2 ever is.
PlanEntryPayloads ==
  [day : {Mon, Tue}, meal : {Dinner}, recipe_id : {1, 2}, servings : {1}]

MealPlanPayloads ==
  [week_start : {Week1, Week2}, entries : SeqsUpTo(PlanEntryPayloads, MaxEntries)]

\* The state after POST /recipes of the omelette.
InitPlan ==
  /\ recipes = {RecipeRow(1, OmelettePayload)}
  /\ inventory = {}
  /\ plans = {}
  /\ nextId = [recipe |-> 2, item |-> 1, plan |-> 1]
  /\ last = [op |-> "none"]
  /\ sessions = <<>>

CreateMealPlan ==
  \E payload \in MealPlanPayloads :
    /\ create_meal_plan(payload)
    /\ UNCHANGED sessions

NextPlan == CreateMealPlan

SpecPlan == InitPlan /\ [][NextPlan]_vars

\* A step that is a create-meal-plan naming a recipe that is not stored.
MissingRecipeStep ==
  /\ last'.op = "create_meal_plan"
  /\ \E i \in 1..Len(last'.payload.entries) :
       ~ \E r \in recipes : r.id = last'.payload.entries[i].recipe_id

\* C6: a create-meal-plan request that names a recipe id that is not stored
\* ends 404 and leaves the stored plans and their entries as they were.
C6_MissingRecipeNoMutation ==
  [][MissingRecipeStep => last'.status = 404 /\ plans' = plans]_vars

\* C6's case: the plan of the week had entries, the request's first entry was
\* valid and its second named the missing recipe; the plan still has entries.
C6_Witness ==
  /\ last.op = "create_meal_plan"
  /\ last.status = 404
  /\ Len(last.payload.entries) = 2
  /\ \E r \in recipes : r.id = last.payload.entries[1].recipe_id
  /\ ~ \E r \in recipes : r.id = last.payload.entries[2].recipe_id
  /\ \E p \in plans : p.week_start = last.payload.week_start /\ Len(p.entries) = 2

UniqueWeekStart ==
  \A p, q \in plans : p.week_start = q.week_start => p = q

\* The entries a payload asks for, with day and meal lowercased.
PayloadEntries(payload) ==
  [i \in 1..Len(payload.entries) |->
     [day |-> Lower(payload.entries[i].day),
      meal |-> Lower(payload.entries[i].meal),
      recipe_id |-> payload.entries[i].recipe_id,
      servings |-> payload.entries[i].servings]]

\* C7: after every request there is at most one plan per week_start; a
\* successful create for a week keeps the id of that week's plan if there was
\* one, leaves the plan with exactly the payload's entries, and leaves the
\* plans of the other weeks unchanged.
C7_OnePlanPerWeekReplaced ==
  [][/\ UniqueWeekStart'
     /\ (last'.op = "create_meal_plan" /\ last'.status = 201) =>
          LET week == last'.payload.week_start IN
          /\ \E p \in plans' :
               /\ p.week_start = week
               /\ p.entries = PayloadEntries(last'.payload)
               /\ \A old \in plans : old.week_start = week => p.id = old.id
          /\ {p \in plans' : p.week_start # week}
               = {p \in plans : p.week_start # week}]_vars

\* C7's case: a plan that had two entries was replaced by one with a single
\* entry, and the plan of the other week is still there.
C7_Witness ==
  /\ last.op = "create_meal_plan"
  /\ last.status = 201
  /\ last.body.id = 1
  /\ nextId.plan = 3
  /\ Len(last.body.entries) = 1
  /\ \E p \in plans : p.week_start # last.payload.week_start /\ Len(p.entries) = 2

-----------------------------------------------------------------------------
(* Shopping lists of a stored plan against a changing inventory *)

Dressing == <<"D","r","e","s","s","i","n","g">>

\* A second recipe: the same key twice, a unit "" that shares its key with the
\* omelette's unit None, and a quantity of 1/QScale.
DressingPayload ==
  [title |-> Dressing,
   ingredients |-> <<[name |-> Oil, quantity |-> QScale + QScale \div 2, unit |-> cup],
                     [name |-> Egg, quantity |-> QScale \div 2, unit |-> <<>>],
                     [name |-> Oil, quantity |-> 1, unit |-> cup]>>]

ShopEntryPayloads ==
  [day : {Mon, Tue}, meal : {Dinner}, recipe_id : {1, 2}, servings : {1, 2}]

ShopPlanPayloads ==
  {payload \in [week_start : {Week1},
                entries : SeqsUpTo(ShopEntryPayloads, MaxEntries)] :
     UniqueDayMeal(AppendedEntries(payload.entries))}

ShopInventoryPayloads ==
  [name : {Egg, Oil},
   quantity : {QScale, QScale + QScale \div 2},
   unit : {None, cup, Cup},
   expires_on : {NoDate}]
  \cup [name : {Oil}, quantity : {QScale}, unit : {None}, expires_on : {Day1}]

\* The states after POST /recipes of the two recipes and one POST /meal-plans.
InitShop ==
  /\ recipes = {RecipeRow(1, OmelettePayload), RecipeRow(2, DressingPayload)}
  /\ inventory = {}
  /\ plans \in {WorkingPlans({}, 1, payload) : payload \in ShopPlanPayloads}
  /\ nextId = [recipe |-> 3, item |-> 1, plan |-> 2]
  /\ last = [op |-> "none"]
  /\ sessions = <<>>

AddStock ==
  \E payload \in ShopInventoryPayloads :
    /\ ItemsNamed(inventory, normalize_name(payload.name)) = {} => nextId.item <= MaxItemIds
    /\ Abs(AddInventoryRow(inventory, nextId.item, payload).quantity) <= QtyCap
    /\ add_inventory_item(payload)
    /\ UNCHANGED sessions

GenerateShoppingList ==
  \E week_start \in {Week1, Week2} :
    /\ generate_shopping_list(week_start)
    /\ UNCHANGED sessions

NextShop == AddStock \/ GenerateShoppingList

SpecShop == InitShop /\ [][NextShop]_vars

-----------------------------------------------------------------------------
(* Claims on the shopping list *)

\* The (entry, ingredient) index pairs of a plan.
IngredientSlots(plan) ==
  UNION {{<<i, j>> : j \in 1..Len(RecipeOf(plan.entries[i]).ingredients)}
           : i \in 1..Len(plan.entries)}

SlotIngredient(plan, slot) == RecipeOf(plan.entries[slot[1]]).ingredients[slot[2]]

\* The key of the claims: (trimmed lowercased name, unit or "").
ClaimKey(name, unit) == <<TrimLower(name), IF unit = None THEN <<>> ELSE unit>>

SlotKey(plan, slot) ==
  ClaimKey(SlotIngredient(plan, slot).name, SlotIngredient(plan, slot).unit)

RECURSIVE SumSlots(_, _)
SumSlots(plan, slots) ==
  IF slots = {} THEN 0
  ELSE LET s == CHOOSE x \in slots : TRUE IN
       SlotIngredient(plan, s).quantity * plan.entries[s[1]].servings
         + SumSlots(plan, slots \ {s})

\* The sum of ingredient.quantity * entry.servings over the slots of a key.
KeyDemand(plan, key) ==
  SumSlots(plan, {s \in IngredientSlots(plan) : SlotKey(plan, s) = key})

RECURSIVE SumRows(_)
SumRows(rows) ==
  IF rows = {} THEN 0
  ELSE LET r == CHOOSE x \in rows : TRUE IN r.quantity + SumRows(rows \ {r})

\* The inventory total of a key.
KeyStock(key) == SumRows({it \in inventory : ClaimKey(it.name, it.unit) = key})

\* h hundredths is x / QScale rounded to 2 decimals.
IsRounded2(x, h) == 2 * Abs(100 * x - h * QScale) <= QScale

\* The state holds the response of a generate_shopping_list that found a plan.
ListedPlan == CHOOSE p \in plans : p.week_start = last.week_start

Listed == last.op = "shopping_list" /\ last.status = 200

\* C1: the shopping list holds exactly one item per demand key whose demand
\* exceeds the inventory total of that key, with the key's unit and with
\* quantity demand - available rounded to 2 decimals; a key whose demand is at
\* most the available total has no item.
C1_ShoppingListDeficits ==
  Listed =>
    LET plan == ListedPlan
        keys == {SlotKey(plan, s) : s \in IngredientSlots(plan)}
        short == {k \in keys : KeyDemand(plan, k) > KeyStock(k)}
        items == last.items
        itemKey(n) == ClaimKey(items[n].name, items[n].unit)
    IN /\ Len(items) = Cardinality(short)
       /\ {itemKey(n) : n \in 1..Len(items)} = short
       /\ \A n \in 1..Len(items) :
            IsRounded2(KeyDemand(plan, itemKey(n)) - KeyStock(itemKey(n)),
                       items[n].quantity)

\* C1's case: a list of at least two items was generated while one key of
\* the plan has stock equal to its demand (and is left out) and another has
\* stock short of its demand.
C1_Witness ==
  /\ Listed
  /\ Len(last.items) >= 2
  /\ \E k \in {SlotKey(ListedPlan, s) : s \in IngredientSlots(ListedPlan)} :
       KeyStock(k) > 0 /\ KeyDemand(ListedPlan, k) = KeyStock(k)
  /\ \E k \in {SlotKey(ListedPlan, s) : s \in IngredientSlots(ListedPlan)} :
       KeyStock(k) > 0 /\ KeyDemand(ListedPlan, k) > KeyStock(k)

\* key -> quantity of a demand, without its order.
DemandMap(required) ==
  {<<required[n].key, required[n].quantity>> : n \in 1..Len(required)}

Permute(seq, f) == [i \in 1..Len(seq) |-> seq[f[i]]]

\* Every way to reorder the ingredients of each recipe.
RECURSIVE Reordered(_)
Reordered(rs) ==
  IF rs = {} THEN {{}}
  ELSE LET r == CHOOSE x \in rs : TRUE IN
       {rest \cup {[r EXCEPT !.ingredients = Permute(r.ingredients, f)]} :
          rest \in Reordered(rs \ {r}),
          f \in Permutations(1..Len(r.ingredients))}

-----------------------------------------------------------------------------
(* services/recipe_scraper.py: the quantity/unit parser *)

COMMON_UNITS ==
  {<<"g">>,
   <<"g","r","a","m">>,
   <<"g","r","a","m","s">>,
   <<"k","g">>,
   <<"m","l">>,
   <<"l">>,
   <<"l","i","t","r","e">>,
   <<"l","i","t","r","e","s">>,
   <<"l","i","t","e","r">>,
   <<"l","i","t","e","r","s">>,
   <<"c","u","p">>,
   <<"c","u","p","s">>,
   <<"t","s","p">>,
   <<"t","e","a","s","p","o","o","n">>,
   <<"t","e","a","s","p","o","o","n","s">>,
   <<"t","b","s","p">>,
   <<"t","a","b","l","e","s","p","o","o","n">>,
   <<"t","a","b","l","e","s","p","o","o","n","s">>,
   <<"o","u","n","c","e">>,
   <<"o","u","n","c","e","s">>,
   <<"o","z">>,
   <<"l","b">>,
   <<"l","b","s">>,
   <<"p","o","u","n","d">>,
   <<"p","o","u","n","d","s">>,
   <<"c","l","o","v","e">>,
   <<"c","l","o","v","e","s">>,
   <<"c","o","u","n","t">>,
   <<"p","i","e","c","e">>,
   <<"p","i","e","c","e","s">>,
   <<"p","i","n","c","h">>}

Digits == <<"0","1","2","3","4","5","6","7","8","9">>

DigitSet == {Digits[i] : i \in 1..10}

DigitValue == [c \in DigitSet |-> (CHOOSE i \in 1..10 : Digits[i] = c) - 1]

AllDigits(s) == s # <<>> /\ \A i \in 1..Len(s) : s[i] \in DigitSet

\* int() of a string of digits.
RECURSIVE NatOf(_)
NatOf(s) ==
  IF s = <<>> THEN 0
  ELSE 10 * NatOf(SubSeq(s, 1, Len(s) - 1)) + DigitValue[s[Len(s)]]

RECURSIVE Pow10(_)
Pow10(k) == IF k = 0 THEN 1 ELSE 10 * Pow10(k - 1)

\* The positions of character c in s.
Positions(s, c) == {i \in 1..Len(s) : s[i] = c}

\* A parsed number, or the absence of one (None, or an exception caught).
Number(q) == [some |-> TRUE, value |-> q]
NoNumber == [some |-> FALSE, value |-> 0]

\* float(Fraction(value)) in 1/QScale units, for the literals "d", "n/d" and
\* "i.f" with an optional sign; NoNumber for the ValueError of any other
\* string and for the ZeroDivisionError of a zero denominator.
FractionOf(value) ==
  LET s == Strip(value)
      signed == s # <<>> /\ s[1] \in {"-", "+"}
      sign == IF signed /\ s[1] = "-" THEN -1 ELSE 1
      body == IF signed THEN Tail(s) ELSE s
      slash == Positions(body, "/")
      dot == Positions(body, ".")
  IN IF AllDigits(body) THEN Number(sign * NatOf(body) * QScale)
     ELSE IF Cardinality(slash) = 1 /\ dot = {}
     THEN LET k == CHOOSE i \in slash : TRUE
              num == SubSeq(body, 1, k - 1)
              den == SubSeq(body, k + 1, Len(body))
          IN IF AllDigits(num) /\ AllDigits(den) /\ NatOf(den) # 0
             THEN Number((sign * NatOf(num) * QScale) \div NatOf(den))
             ELSE NoNumber
     ELSE IF Cardinality(dot) = 1 /\ slash = {}
     THEN LET k == CHOOSE i \in dot : TRUE
              int == SubSeq(body, 1, k - 1)
              frac == SubSeq(body, k + 1, Len(body))
          IN IF /\ (int = <<>> \/ AllDigits(int))
                /\ (frac = <<>> \/ AllDigits(frac))
                /\ (int # <<>> \/ frac # <<>>)
             THEN Number(sign * (NatOf(int) * QScale
                                   + (NatOf(frac) * QScale) \div Pow10(Len(frac))))
             ELSE NoNumber
     ELSE NoNumber

\* re.match(r"^(\d+)\s+(\d+/\d+)$", value): the groups, or none.
MixedMatch(value) ==
  LET spaces == {i \in 1..Len(value) : IsSpace(value[i])}
      first == IF spaces = {} THEN 0 ELSE CHOOSE i \in spaces : \A j \in spaces : i <= j
      final == IF spaces = {} THEN 0 ELSE CHOOSE i \in spaces : \A j \in spaces : i >= j
      whole == SubSeq(value, 1, first - 1)
      fraction == SubSeq(value, final + 1, Len(value))
      slash == Positions(fraction, "/")
  IN IF /\ spaces # {}
        /\ spaces = first..final
        /\ AllDigits(whole)
        /\ Cardinality(slash) = 1
        /\ AllDigits(SubSeq(fraction, 1, (CHOOSE i \in slash : TRUE) - 1))
        /\ AllDigits(SubSeq(fraction, (CHOOSE i \in slash : TRUE) + 1, Len(fraction)))
     THEN [matched |-> TRUE, whole |-> whole, fraction |-> fraction]
     ELSE [matched |-> FALSE, whole |-> <<>>, fraction |-> <<>>]

\* recipe_scraper._parse_numeric.  (A matched mixed number with a zero
\* denominator would raise; no caller passes a value with whitespace.)
_parse_numeric(value) ==
  LET v == Strip(value)
      direct == FractionOf(v)
      mixed == MixedMatch(v)
  IN IF direct.some THEN direct
     ELSE IF mixed.matched
     THEN Number(NatOf(mixed.whole) * QScale + FractionOf(mixed.fraction).value)
     ELSE NoNumber

\* str.split(): the maximal runs of non-whitespace.
RECURSIVE SplitFrom(_, _, _, _)
SplitFrom(s, i, cur, acc) ==
  IF i > Len(s) THEN (IF cur = <<>> THEN acc ELSE Append(acc, cur))
  ELSE IF IsSpace(s[i])
  THEN SplitFrom(s, i + 1, <<>>, IF cur = <<>> THEN acc ELSE Append(acc, cur))
  ELSE SplitFrom(s, i + 1, Append(cur, s[i]), acc)

Split(s) == SplitFrom(s, 1, <<>>, <<>>)

\* " ".join(tokens)
RECURSIVE JoinSpace(_)
JoinSpace(tokens) ==
  IF tokens = <<>> THEN <<>>
  ELSE IF Len(tokens) = 1 THEN tokens[1]
  ELSE tokens[1] \o <<" ">> \o JoinSpace(Tail(tokens))

\* str.rstrip(".,")
RECURSIVE RStripPunct(_)
RStripPunct(s) ==
  IF s # <<>> /\ s[Len(s)] \in {".", ","}
  THEN RStripPunct(SubSeq(s, 1, Len(s) - 1))
  ELSE s

\* potential_unit in COMMON_UNITS
IsUnitToken(token) == RStripPunct(Lower(token)) \in COMMON_UNITS

\* recipe_scraper._split_quantity_unit
_split_quantity_unit(text) ==
  LET tokens == Split(text) IN
  IF tokens = <<>> THEN [quantity |-> QScale, unit |-> None, name |-> <<>>]
  ELSE LET candidate == _parse_numeric(tokens[1])
           quantity == IF candidate.some THEN candidate.value ELSE QScale
           afterNumber == IF candidate.some THEN Tail(tokens) ELSE tokens
           hasUnit == candidate.some /\ afterNumber # <<>> /\ IsUnitToken(afterNumber[1])
           unit == IF hasUnit THEN afterNumber[1] ELSE None
           remainder == IF hasUnit THEN Tail(afterNumber) ELSE afterNumber
           joined == Strip(JoinSpace(remainder))
       IN [quantity |-> quantity,
           unit |-> unit,
           name |-> IF joined # <<>> THEN joined ELSE text]

\* recipe_scraper._parse_ingredient, of a str
_parse_ingredient(ingredient) == _split_quantity_unit(Strip(ingredient))

-----------------------------------------------------------------------------
(* Parsing ingredient lines *)

MaxTokens == 3

IngredientTokens ==
  {<<"2">>,
   <<"1","/","2">>,
   <<"0">>,
   <<"0","/","5">>,
   <<"-","3">>,
   <<"1","/","0">>,
   <<"1","/","x">>,
   <<"c","u","p","s">>,
   <<"C","u","p","s",".">>,
   <<"f","l","o","u","r">>}

MixedNumberLine == <<"2"," ","1","/","2"," ","c","u","p","s"," ","f","l","o","u","r">>

PastaLine == <<"2","0","0"," ","g"," ","p","a","s","t","a">>

\* Lines of up to MaxTokens tokens joined by single blanks, the empty and the
\* blank line, and lines with a decimal, irregular blanks and a fourth token.
IngredientLines ==
  {JoinSpace(ts) : ts \in SeqsUpTo(IngredientTokens, MaxTokens)}
    \cup {MixedNumberLine, PastaLine, <<" "," "," ">>,
          <<" "," ","2",".","5"," "," "," ","C","u","p","s","."," "," ","f","l","o","u","r"," ">>,
          <<" ",".","2","5"," ","t","s","p","."," ","s","a","l","t">>}

\* One line is handed to the parser.
InitParse ==
  /\ recipes = {}
  /\ inventory = {}
  /\ plans = {}
  /\ nextId = [recipe |-> 1, item |-> 1, plan |-> 1]
  /\ last \in [op : {"line"}, line : IngredientLines]
  /\ sessions = <<>>

ParseIngredient ==
  /\ last.op = "line"
  /\ last' = [op |-> "parse", line |-> last.line,
              result |-> _parse_ingredient(last.line)]
  /\ UNCHANGED <<recipes, inventory, plans, nextId, sessions>>

NextParse == ParseIngredient

SpecParse == InitParse /\ [][NextParse]_vars

\* The reading of a line that starts with a whole number and a fraction:
\* whole + fraction, then unit and name detection from the third token on.
IsFractionToken(token) ==
  /\ Cardinality(Positions(token, "/")) = 1
  /\ LET k == CHOOSE i \in Positions(token, "/") : TRUE
     IN /\ AllDigits(SubSeq(token, 1, k - 1))
        /\ AllDigits(SubSeq(token, k + 1, Len(token)))
        /\ NatOf(SubSeq(token, k + 1, Len(token))) # 0

FractionTokenValue(token) ==
  LET k == CHOOSE i \in Positions(token, "/") : TRUE
  IN (NatOf(SubSeq(token, 1, k - 1)) * QScale) \div NatOf(SubSeq(token, k + 1, Len(token)))

StartsWithMixedNumber(line) ==
  LET tokens == Split(line) IN
  /\ Len(tokens) >= 2
  /\ AllDigits(tokens[1])
  /\ IsFractionToken(tokens[2])

MixedNumberReading(line) ==
  LET tokens == Split(line)
      rest == SubSeq(tokens, 3, Len(tokens))
      hasUnit == rest # <<>> /\ RStripPunct(Lower(rest[1])) \in COMMON_UNITS
      remainder == IF hasUnit THEN Tail(rest) ELSE rest
  IN [quantity |-> NatOf(tokens[1]) * QScale + FractionTokenValue(tokens[2]),
      unit |-> IF hasUnit THEN rest[1] ELSE None,
      name |-> IF remainder # <<>> THEN JoinSpace(remainder) ELSE Strip(line)]

\* C10: a line that starts with a whole number, whitespace and a fraction is
\* parsed to the quantity whole + fraction, with unit and name detection
\* continuing from the third token ("2 1/2 cups flour" is 2.5, "cups",
\* "flour").
C10_MixedNumberQuantity ==
  (last.op = "parse" /\ StartsWithMixedNumber(last.line))
    => last.result = MixedNumberReading(last.line)

-----------------------------------------------------------------------------
(* services/recipe_scraper.py: extraction from a fetched page *)

\* Values of json.loads: a scalar, a list, or an object with its "@type",
\* "name", "recipeIngredient" and "@graph" members.
Scalar == [k |-> "scalar"]

List(items) == [k |-> "list", items |-> items]

NoTag == [k |-> "absent"]

StrTag(s) == [k |-> "str", v |-> s]

ListTag(ss) == [k |-> "list", v |-> ss]

NoGraph == [present |-> FALSE, items |-> <<>>]

Graph(items) == [present |-> TRUE, items |-> items]

Dict(type, name, recipeIngredient, graph) ==
  [k |-> "dict", type |-> type, name |-> name,
   recipeIngredient |-> recipeIngredient, graph |-> graph]

\* A script block whose text json.loads rejects (JSONDecodeError).
Malformed == [k |-> "malformed"]

\* Outcomes of a search: a node, None, or an exception that propagates.
Found(node) == [k |-> "found", node |-> node]
NotFound == [k |-> "none"]
Raised(error) == [k |-> "raise", error |-> error]

\* `data.get("@type") in {"Recipe", ["Recipe"]}`: the set display hashes its
\* elements, and hashing the list ["Recipe"] raises TypeError, whatever the
\* tag is.
RecipeTagTest(tag) == "raise"

RECURSIVE _locate_recipe_node(_)
RECURSIVE LocateFirst(_, _)
\* The loops of _locate_recipe_node: the first truthy result among nodes[i..].
LocateFirst(nodes, i) ==
  IF i > Len(nodes) THEN NotFound
  ELSE LET recipe == _locate_recipe_node(nodes[i])
       IN IF recipe.k = "none" THEN LocateFirst(nodes, i + 1) ELSE recipe

_locate_recipe_node(data) ==
  IF data.k = "dict"
  THEN LET test == RecipeTagTest(data.type)
       IN IF test = "raise" THEN Raised("TypeError")
          ELSE IF test = "true" THEN Found(data)
          ELSE IF data.graph.present THEN LocateFirst(data.graph.items, 1)
          ELSE NotFound
  ELSE IF data.k = "list" THEN LocateFirst(data.items, 1)
  ELSE NotFound

RECURSIVE _extract_json_ld_recipe(_, _)
_extract_json_ld_recipe(scripts, i) ==
  IF i > Len(scripts) THEN NotFound
  ELSE IF scripts[i].k = "malformed" THEN _extract_json_ld_recipe(scripts, i + 1)
  ELSE LET recipe == _locate_recipe_node(scripts[i])
       IN IF recipe.k = "none" THEN _extract_json_ld_recipe(scripts, i + 1)
          ELSE recipe

UntitledRecipe == <<"U","n","t","i","t","l","e","d"," ","R","e","c","i","p","e">>

_convert_recipe(raw) ==
  [title |-> OrElse(raw.name, UntitledRecipe),
   ingredients |-> [i \in 1..Len(raw.recipeIngredient) |->
                      _parse_ingredient(raw.recipeIngredient[i])]]

_fallback_extract(page) ==
  IF page.title_tag = None THEN NotFound
  ELSE IF page.ingredient_nodes = <<>> THEN NotFound
  ELSE Found([title |-> Strip(page.title_tag),
              ingredients |-> [i \in 1..Len(page.ingredient_nodes) |->
                                 _parse_ingredient(Strip(page.ingredient_nodes[i]))]])

\* fetch_recipe_from_url, of a page that was fetched.
fetch_recipe_from_url(page) ==
  LET json_ld_recipe == _extract_json_ld_recipe(page.scripts, 1) IN
  IF json_ld_recipe.k = "raise" THEN json_ld_recipe
  ELSE IF json_ld_recipe.k = "found" THEN Found(_convert_recipe(json_ld_recipe.node))
  ELSE _fallback_extract(page)

UnableToExtract == "Unable to extract recipe from URL"

\* POST /recipes/scrape
scrape_recipe(page) ==
  \E scraped \in {fetch_recipe_from_url(page)} :
    LET request == [op |-> "scrape", page |-> page] IN
    IF scraped.k = "raise"
    THEN /\ last' = request @@ [status |-> 500, detail |-> scraped.error]
         /\ UNCHANGED <<recipes, inventory, plans, nextId>>
    ELSE IF scraped.k = "none"
    THEN /\ last' = request @@ [status |-> 400, detail |-> UnableToExtract]
         /\ UNCHANGED <<recipes, inventory, plans, nextId>>
    ELSE \E row \in {RecipeRow(nextId.recipe, scraped.node)} :
         /\ recipes' = recipes \cup {row}
         /\ nextId' = [nextId EXCEPT !.recipe = @ + 1]
         /\ last' = request @@ [status |-> 201, body |-> row]
         /\ UNCHANGED <<inventory, plans>>

-----------------------------------------------------------------------------
(* Scraping pages *)

MaxScripts == 2
MaxScraped == 2

TitleX == <<"X">>

RecipeNode == Dict(StrTag("Recipe"), TitleX, <<PastaLine>>, NoGraph)

RecipeListTagNode == Dict(ListTag(<<"Recipe">>), TitleX, <<PastaLine>>, NoGraph)

WebSiteNode == Dict(StrTag("WebSite"), None, <<>>, NoGraph)

UntaggedNode == Dict(NoTag, None, <<>>, NoGraph)

PlainNodes == {RecipeNode, RecipeListTagNode, WebSiteNode, UntaggedNode}

GraphOf(items) == Dict(NoTag, None, <<>>, Graph(items))

ScriptBlocks ==
  {Malformed, Scalar, List(<<>>), List(<<Scalar>>), GraphOf(<<>>),
   GraphOf(<<WebSiteNode, RecipeNode>>), List(<<GraphOf(<<RecipeNode>>)>>)}
    \cup PlainNodes
    \cup {GraphOf(<<n>>) : n \in PlainNodes}
    \cup {List(<<n>>) : n \in PlainNodes}

Pages ==
  [scripts : SeqsUpTo(ScriptBlocks, MaxScripts),
   title_tag : {None, TitleX},
   ingredient_nodes : {<<>>, <<PastaLine>>}]

\* One page is served at the URL; the server starts empty.
InitScrape ==
  /\ recipes = {}
  /\ inventory = {}
  /\ plans = {}
  /\ nextId = [recipe |-> 1, item |-> 1, plan |-> 1]
  /\ last \in [op : {"page"}, page : Pages]
  /\ sessions = <<>>

ScrapeRecipe ==
  /\ nextId.recipe <= MaxScraped
  /\ scrape_recipe(last.page)
  /\ UNCHANGED sessions

NextScrape == ScrapeRecipe

SpecScrape == InitScrape /\ [][NextScrape]_vars

\* The nodes of a tree that carry the type Recipe, in document order.
TaggedRecipe(node) ==
  \/ node.type.k = "str" /\ node.type.v = "Recipe"
  \/ node.type.k = "list" /\ \E i \in 1..Len(node.type.v) : node.type.v[i] = "Recipe"

RECURSIVE RecipeNodes(_)
RECURSIVE RecipeNodesIn(_, _)
RecipeNodesIn(nodes, i) ==
  IF i > Len(nodes) THEN <<>>
  ELSE RecipeNodes(nodes[i]) \o RecipeNodesIn(nodes, i + 1)

RecipeNodes(data) ==
  IF data.k = "dict"
  THEN IF TaggedRecipe(data) THEN <<data>>
       ELSE IF data.graph.present THEN RecipeNodesIn(data.graph.items, 1)
       ELSE <<>>
  ELSE IF data.k = "list" THEN RecipeNodesIn(data.items, 1)
  ELSE <<>>

PageRecipeNodes(page) == RecipeNodesIn(page.scripts, 1)

\* C8: when a structured-data block of the page holds a node of type Recipe
\* (at the top, inside a list or inside an @graph array), the scrape stores
\* a recipe whose title is the node's name and whose ingredients are the
\* node's recipeIngredient strings, each run through the parser.
C8_JsonLdRecipeExtracted ==
  (last.op = "scrape" /\ PageRecipeNodes(last.page) # <<>>)
    => LET node == PageRecipeNodes(last.page)[1] IN
       /\ last.status = 201
       /\ last.body.title = node.name
       /\ Len(last.body.ingredients) = Len(node.recipeIngredient)
       /\ \A i \in 1..Len(node.recipeIngredient) :
            LET parsed == _parse_ingredient(node.recipeIngredient[i])
                stored == last.body.ingredients[i]
            IN /\ stored.name = parsed.name
               /\ stored.quantity = parsed.quantity
               /\ stored.unit = parsed.unit

\* A page from which no recipe is recoverable: no Recipe node in any block,
\* and no heading or no ingredient list item for the fallback.
Unrecoverable(page) ==
  /\ PageRecipeNodes(page) = <<>>
  /\ (page.title_tag = None \/ page.ingredient_nodes = <<>>)

\* C9: a scrape of a fetched page from which no recipe is recoverable is
\* answered 400 "Unable to extract recipe from URL" and stores no recipe.
C9_NoRecipeRejected ==
  [][(last'.op = "scrape" /\ Unrecoverable(last'.page))
       => /\ last'.status = 400
          /\ last'.detail = UnableToExtract
          /\ recipes' = recipes]_vars

-----------------------------------------------------------------------------
(* Reconciliation by literal unit *)

\* The unit string of a row or ingredient, an absent unit being "".
UnitText(unit) == IF unit = None THEN <<>> ELSE unit

\* The inventory rows that carry a key's name and, character for character,
\* its unit.
RowsOfNameAndUnit(key) ==
  {it \in inventory : TrimLower(it.name) = key[1] /\ UnitText(it.unit) = key[2]}

\* The inventory rows that carry a key's name under another unit.
RowsOfNameOtherUnit(key) ==
  {it \in inventory : TrimLower(it.name) = key[1] /\ UnitText(it.unit) # key[2]}

\* C11: stock offsets the demand of an ingredient only if the row has the
\* ingredient's normalized name and a character-for-character identical unit
\* (absent counting as ""); when no row of the name has that unit, also when
\* the units differ only in letter case, the full demand of the key is on the
\* list and the stock is ignored.
C11_UnitLiteralMatch ==
  Listed =>
    LET plan == ListedPlan
        keys == {SlotKey(plan, s) : s \in IngredientSlots(plan)}
        items == last.items
    IN \A k \in keys :
         RowsOfNameAndUnit(k) = {} =>
           \E n \in 1..Len(items) :
             /\ ClaimKey(items[n].name, items[n].unit) = k
             /\ IsRounded2(KeyDemand(plan, k), items[n].quantity)

\* C11's case: a list was generated while a row of the ingredient's name holds
\* at least the demand under a unit that differs from the ingredient's only
\* in letter case, and the full demand is listed.
C11_Witness ==
  /\ Listed
  /\ \E s \in IngredientSlots(ListedPlan) :
       LET k == SlotKey(ListedPlan, s) IN
       /\ RowsOfNameAndUnit(k) = {}
       /\ \E it \in RowsOfNameOtherUnit(k) :
            /\ Lower(UnitText(it.unit)) = Lower(k[2])
            /\ it.quantity >= KeyDemand(ListedPlan, k)
       /\ \E n \in 1..Len(last.items) :
            /\ ClaimKey(last.items[n].name, last.items[n].unit) = k
            /\ last.items[n].quantity * QScale = 100 * KeyDemand(ListedPlan, k)

\* C12: every item of a generated shopping list has a strictly positive
\* quantity after rounding to 2 decimals, also for deficits below 0.005.
C12_ListedQuantitiesPositive ==
  Listed => \A n \in 1..Len(last.items) : last.items[n].quantity > 0

-----------------------------------------------------------------------------
(* Range of the parsed quantity *)

\* C13: for every input line the parser returns a quantity strictly greater
\* than 0: a numeric prefix yields a positive quantity and a line without a
\* usable one yields the default 1.0; a first token "0", "0/5" or a negative
\* number never produces a quantity <= 0.
C13_ParsedQuantityPositive ==
  last.op = "parse" => last.result.quantity > 0

-----------------------------------------------------------------------------
(* Frame and effect of a planned-meal consume *)

\* The ingredients of an entry's recipe whose name, trimmed and lowercased, is
\* that of a row, whatever their units.
IngredientsNaming(entry, it) ==
  {j \in 1..Len(RecipeOf(entry).ingredients) :
     TrimLower(RecipeOf(entry).ingredients[j].name) = TrimLower(it.name)}

\* A consume request for a stored entry, by plan id and day and meal up to
\* letter case.
ConsumeOfStoredEntry ==
  /\ last'.op = "consume_meal"
  /\ Truthy(last'.day) /\ Truthy(last'.meal)
  /\ \E p \in plans : \E i \in 1..Len(p.entries) :
       /\ p.id = last'.plan_id
       /\ p.entries[i].day = Lower(last'.day)
       /\ p.entries[i].meal = Lower(last'.meal)

\* C14: a planned-meal consume succeeds and changes only the quantity of the
\* rows named by an ingredient of the entry's recipe, whatever the units:
\* each is reduced by ingredient.quantity * entry.servings, floored at 0.
\* Ingredients without a row are skipped and create no row; every other row,
\* the meal plans, their entries and the recipes are unchanged.
C14_ConsumeMealFrame ==
  [][ConsumeOfStoredEntry =>
       /\ last'.status = 200
       /\ {it.id : it \in inventory'} = {it.id : it \in inventory}
       /\ Cardinality(inventory') = Cardinality(inventory)
       /\ \A it \in inventory :
            LET js == IngredientsNaming(last'.entry, it)
                left == it.quantity - SumRequested(last'.entry, js)
            IN IF js = {} THEN it \in inventory'
               ELSE [it EXCEPT !.quantity = IF left < 0 THEN 0 ELSE left]
                      \in inventory'
       /\ plans' = plans
       /\ recipes' = recipes]_vars

\* C14's case: the one-serving entry was consumed: the egg row, stored in
\* cups, was named by two ingredients of other units and keeps half a unit,
\* no row was made for the salt, and the oil row is there.
C14_Witness ==
  /\ last.op = "consume_meal"
  /\ last.status = 200
  /\ last.entry.servings = 1
  /\ \E it \in inventory :
       it.normalized_name = Lower(Egg) /\ it.unit = cup /\ it.quantity = QScale \div 2
  /\ \A it \in inventory : it.normalized_name # Lower(Salt)
  /\ \E it \in inventory : it.normalized_name = Lower(Oil)

-----------------------------------------------------------------------------
(* Consume requests served concurrently *)

(***************************************************************************)
(* The handlers are sync functions, which the framework runs in a thread   *)
(* pool, each with a Session of its own from get_db.  A handler then is a  *)
(* sequence of statements the database sees one at a time: its SELECTs,    *)
(* and the UPDATE or DELETE of its commit.  Between them the handler       *)
(* computes on the objects of its session.  A session is modelled by the   *)
(* request it serves, the position of the handler, the InventoryItem       *)
(* objects it holds, each with the quantity it was loaded with, the index  *)
(* of the loop of consume_meal, and the status of the response (0 until    *)
(* the handler returns).                                                   *)
(***************************************************************************)

\* with SessionLocal() as session: the session get_db yields for a request.
NewSession(request) ==
  [request |-> request,
   pc |-> IF request.op = "consume_inventory" THEN "get" ELSE "entry",
   identity |-> {},
   i |-> 0,
   status |-> 0,
   body |-> None]

\* The object a query returns for a row: the one the session already holds
\* under the row's primary key, with its attributes as the session has
\* them, or else a new one loaded from the row.
Loaded(s, row) ==
  LET held == {o \in s.identity : o.item.id = row.id} IN
  IF held = {} THEN [item |-> row, committed |-> row.quantity]
  ELSE CHOOSE o \in held : TRUE

\* The identity map after the object for one primary key is replaced.
Hold(s, o) == {x \in s.identity : x.item.id # o.item.id} \cup {o}

\* The flush of db.commit(): one UPDATE inventory_items SET quantity=? WHERE
\* id=? for each object whose quantity differs from the loaded one; an
\* UPDATE that matches no row raises StaleDataError and nothing is written.
Flush(inv, s) ==
  LET dirty == {o \in s.identity : o.item.quantity # o.committed}
      stale == {o \in dirty : \A it \in inv : it.id # o.item.id}
      written(it) == {o \in dirty : o.item.id = it.id}
  IN IF stale # {} THEN [ok |-> FALSE, inventory |-> inv]
     ELSE [ok |-> TRUE,
           inventory |->
             {IF written(it) = {} THEN it
              ELSE [it EXCEPT !.quantity = (CHOOSE o \in written(it) : TRUE).item.quantity] :
                it \in inv}]

\* consume_inventory, db.get(InventoryItem, item_id) and the subtraction.
GetStep(inv, s) ==
  LET found == {it \in inv : it.id = s.request.item_id} IN
  IF found = {}
  THEN [inventory |-> inv, session |-> [s EXCEPT !.pc = "done", !.status = 404]]
  ELSE LET o == Loaded(s, CHOOSE it \in found : TRUE) IN
       [inventory |-> inv,
        session |-> [s EXCEPT
                       !.pc = "commit",
                       !.identity = Hold(s, [o EXCEPT !.item.quantity = @ - s.request.quantity])]]

\* consume_inventory, from `if item.quantity <= 0` to db.commit(): the DELETE
\* of a row that is gone only warns.
CommitItemStep(inv, s) ==
  LET o == CHOOSE x \in s.identity : x.item.id = s.request.item_id IN
  IF Removed(o.item.quantity)
  THEN [inventory |-> {it \in inv : it.id # o.item.id},
        session |-> [s EXCEPT !.pc = "done", !.status = 200,
                              !.body = [id |-> o.item.id, name |-> o.item.name,
                                        quantity |-> None, removed |-> TRUE]]]
  ELSE LET flushed == Flush(inv, s) IN
       IF flushed.ok
       THEN [inventory |-> flushed.inventory, session |-> [s EXCEPT !.pc = "refresh"]]
       ELSE [inventory |-> inv, session |-> [s EXCEPT !.pc = "done", !.status = 500]]

\* consume_inventory, db.refresh(item) and the response: the refresh of a
\* row that is gone raises InvalidRequestError.
RefreshStep(inv, s) ==
  LET found == {it \in inv : it.id = s.request.item_id} IN
  IF found = {}
  THEN [inventory |-> inv, session |-> [s EXCEPT !.pc = "done", !.status = 500]]
  ELSE LET item == CHOOSE it \in found : TRUE IN
       [inventory |-> inv,
        session |-> [s EXCEPT !.pc = "done", !.status = 200,
                              !.body = [id |-> item.id, name |-> item.name,
                                        quantity |-> item.quantity, removed |-> FALSE]]]

\* The ingredients and servings of the entry a consume_meal request names.
EntryOf(request) ==
  LET pe == CHOOSE x \in EntriesAt(request.plan_id, Lower(request.day),
                                   Lower(request.meal)) : TRUE
      entry == pe[1].entries[pe[2]]
  IN [servings |-> entry.servings,
      ingredients |-> (CHOOSE r \in recipes : r.id = entry.recipe_id).ingredients]

\* consume_meal, up to the query of the entry.
EntryStep(inv, s) ==
  LET r == s.request IN
  [inventory |-> inv,
   session |->
     IF ~Truthy(r.day) \/ ~Truthy(r.meal) THEN [s EXCEPT !.pc = "done", !.status = 400]
     ELSE LET found == EntriesAt(r.plan_id, Lower(r.day), Lower(r.meal)) IN
          IF found = {} THEN [s EXCEPT !.pc = "done", !.status = 404]
          ELSE IF Cardinality(found) > 1 THEN [s EXCEPT !.pc = "done", !.status = 500]
          ELSE [s EXCEPT !.pc = IF EntryOf(r).ingredients = <<>> THEN "commit"
                                ELSE "ingredient",
                         !.i = 1]]

\* One call of consume_inventory_by_name from the loop of consume_meal: the
\* query runs against the database, the subtraction on the session's object.
IngredientStep(inv, s) ==
  LET e == EntryOf(s.request)
      ingredient == e.ingredients[s.i]
      found == ItemsNamed(inv, ingredient.normalized_name)
      next == [s EXCEPT !.i = @ + 1,
                        !.pc = IF s.i = Len(e.ingredients) THEN "commit" ELSE "ingredient"]
  IN [inventory |-> inv,
      session |->
        IF found = {} THEN next
        ELSE LET o == Loaded(s, CHOOSE it \in found : TRUE) IN
             [next EXCEPT
                !.identity = Hold(s, [o EXCEPT !.item.quantity =
                                        Floored(@ - ingredient.quantity * e.servings)])]]

\* consume_meal, db.commit() and the response.
CommitMealStep(inv, s) ==
  LET flushed == Flush(inv, s) IN
  [inventory |-> flushed.inventory,
   session |-> [s EXCEPT !.pc = "done",
                         !.status = IF flushed.ok THEN 200 ELSE 500]]

\* The next statement of a handler.
Step(inv, s) ==
  CASE s.pc = "get" -> GetStep(inv, s)
    [] s.pc = "commit" /\ s.request.op = "consume_inventory" -> CommitItemStep(inv, s)
    [] s.pc = "refresh" -> RefreshStep(inv, s)
    [] s.pc = "entry" -> EntryStep(inv, s)
    [] s.pc = "ingredient" -> IngredientStep(inv, s)
    [] s.pc = "commit" /\ s.request.op = "consume_meal" -> CommitMealStep(inv, s)

\* A handler run from its current statement to its response with no other
\* request in between.
RECURSIVE RunAlone(_, _)
RunAlone(inv, s) ==
  IF s.pc = "done" THEN [inventory |-> inv, session |-> s]
  ELSE LET r == Step(inv, s) IN RunAlone(r.inventory, r.session)

\* The stock of the one row the concurrent requests share, in whole units.
MaxStock == MaxWhole + 1

\* The one row: what POST /inventory of eggs leaves.
StockRow(quantity) ==
  AddInventoryRow({}, 1, [name |-> Egg, quantity |-> quantity, unit |-> None,
                          expires_on |-> NoDate])

DirectRequests ==
  [op : {"consume_inventory"}, item_id : {1}, quantity : ConsumeQuantities]

MealRequests ==
  [op : {"consume_meal"}, plan_id : {1}, day : {Mon, Tue}, meal : {Dinner}]

\* A direct consume, and with it another direct consume or a planned-meal
\* consume, both accepted before either has run a statement; `last` keeps
\* the inventory they were accepted on.
InitConc ==
  /\ recipes = {RecipeRow(1, OmelettePayload)}
  /\ inventory \in {{StockRow(k * QScale)} : k \in 1..MaxStock}
  /\ plans = {[id |-> 1, week_start |-> Week1,
               entries |-> [i \in 1..2 |-> EntryRow(OmelettePlanPayload.entries[i])]]}
  /\ nextId = [recipe |-> 2, item |-> 2, plan |-> 2]
  /\ last = [op |-> "accept", inventory |-> inventory]
  /\ sessions \in {<<NewSession(a), NewSession(b)>> :
                     a \in DirectRequests, b \in DirectRequests \cup MealRequests}

\* Session n runs its next statement, of the kind pc.
Serve(n, pc, op) ==
  /\ sessions[n].pc = pc
  /\ sessions[n].request.op = op
  /\ \E r \in {Step(inventory, sessions[n])} :
       /\ inventory' = r.inventory
       /\ sessions' = [sessions EXCEPT ![n] = r.session]
  /\ UNCHANGED <<recipes, plans, nextId, last>>

GetItem == \E n \in DOMAIN sessions : Serve(n, "get", "consume_inventory")

CommitItem == \E n \in DOMAIN sessions : Serve(n, "commit", "consume_inventory")

RefreshItem == \E n \in DOMAIN sessions : Serve(n, "refresh", "consume_inventory")

FindEntry == \E n \in DOMAIN sessions : Serve(n, "entry", "consume_meal")

ConsumeIngredient == \E n \in DOMAIN sessions : Serve(n, "ingredient", "consume_meal")

CommitMeal == \E n \in DOMAIN sessions : Serve(n, "commit", "consume_meal")

NextConc ==
  \/ GetItem
  \/ CommitItem
  \/ RefreshItem
  \/ FindEntry
  \/ ConsumeIngredient
  \/ CommitMeal

SpecConc == InitConc /\ [][NextConc]_vars

\* Both requests have been answered.
BothDone == \A n \in DOMAIN sessions : sessions[n].pc = "done"

\* The inventory after the two requests are served one after the other,
\* first a then b, on the inventory they were accepted on.
SerialInventory(a, b) ==
  RunAlone(RunAlone(last.inventory, NewSession(sessions[a].request)).inventory,
           NewSession(sessions[b].request)).inventory

\* C15: once two concurrent consume requests on the same row have both been
\* answered, the stored inventory is the one that serving them one after the
\* other, in one of the two orders, leaves: no update is lost.
C15_ConcurrentConsumeSerializable ==
  (last.op = "accept" /\ BothDone) =>
    inventory \in {SerialInventory(1, 2), SerialInventory(2, 1)}

-----------------------------------------------------------------------------
(* Letter case of day and meal *)

\* Entries of recipe 1 whose days differ in letter case only, or not at all.
CaseEntryPayloads ==
  [day : {Mon, mon, Tue}, meal : {Dinner}, recipe_id : {1}, servings : {1, 2}]

\* Plans of one week, so that each create after the first replaces a plan.
CasePlanPayloads ==
  [week_start : {Week1}, entries : SeqsUpTo(CaseEntryPayloads, MaxEntries)]

CreateCasePlan ==
  \E payload \in CasePlanPayloads :
    /\ create_meal_plan(payload)
    /\ UNCHANGED sessions

ConsumePlanned ==
  \E plan_id \in {1, 2}, day \in {Mon, mon, Tue}, meal \in {Dinner, dinner} :
    /\ consume_meal(plan_id, day, meal)
    /\ UNCHANGED sessions

NextCase == CreateCasePlan \/ ConsumePlanned

\* Create-meal-plan and consume-meal requests after POST /recipes of the
\* omelette.
SpecCase == InitPlan /\ [][NextCase]_vars

\* Every stored entry has lowercase day and meal, and no plan has two entries
\* of one (day, meal).
StoredEntriesCanonical ==
  \A p \in plans :
    /\ UniqueDayMeal(p.entries)
    /\ \A i \in 1..Len(p.entries) :
         /\ Lower(p.entries[i].day) = p.entries[i].day
         /\ Lower(p.entries[i].meal) = p.entries[i].meal

\* Entries i and j name the same day and meal up to letter case.
SameSlot(a, b) == Lower(a.day) = Lower(b.day) /\ Lower(a.meal) = Lower(b.meal)

\* A create-meal-plan step whose payload has two entries of one slot.
DuplicateSlotStep ==
  /\ last'.op = "create_meal_plan"
  /\ \E i, j \in 1..Len(last'.payload.entries) :
       i # j /\ SameSlot(last'.payload.entries[i], last'.payload.entries[j])

\* A create-meal-plan step with no two entries of one slot, for a week whose
\* stored plan has an entry in a slot of the payload.
ReusedSlotStep ==
  /\ last'.op = "create_meal_plan"
  /\ ~DuplicateSlotStep
  /\ \E p \in PlansOfWeek(plans, last'.payload.week_start) :
       \E i \in 1..Len(p.entries), j \in 1..Len(last'.payload.entries) :
         SameSlot(p.entries[i], last'.payload.entries[j])

\* The stored entries a consume-meal step names, up to letter case.
NamedEntries ==
  {e \in UNION {{p.entries[i] : i \in 1..Len(p.entries)} :
                  p \in {x \in plans : x.id = last'.plan_id}} :
     SameSlot(e, [day |-> last'.day, meal |-> last'.meal])}

\* C16: after every step the stored entries have lowercase day and meal and
\* are unique per (day, meal) within their plan; a create-meal-plan whose
\* payload repeats a (day, meal) up to letter case is not answered 201 and
\* leaves the stored state as it was; a create-meal-plan that reuses a
\* (day, meal) of the plan it replaces is answered 201 and leaves, under the
\* same plan id, exactly the payload's entries with day and meal lowercased;
\* a consume-meal finds the stored entry whose day and meal equal the given
\* ones up to letter case.
C16_DayMealCanonical ==
  [][/\ StoredEntriesCanonical'
     /\ DuplicateSlotStep =>
          /\ last'.status # 201
          /\ plans' = plans
          /\ nextId' = nextId
     /\ ReusedSlotStep =>
          /\ last'.status = 201
          /\ \E p \in PlansOfWeek(plans, last'.payload.week_start) :
               plans' = (plans \ {p})
                          \cup {[p EXCEPT !.entries =
                                   [i \in 1..Len(last'.payload.entries) |->
                                      [day |-> Lower(last'.payload.entries[i].day),
                                       meal |-> Lower(last'.payload.entries[i].meal),
                                       recipe_id |-> last'.payload.entries[i].recipe_id,
                                       servings |-> last'.payload.entries[i].servings]]]}
     /\ (last'.op = "consume_meal" /\ NamedEntries # {}) =>
          /\ last'.status = 200
          /\ last'.entry \in NamedEntries]_vars

\* C16's case: the entry created as "mon" / "Dinner" over a plan that had the
\* slot already, found by a consume-meal of "Mon" / "dinner".
C16_Witness ==
  /\ last.op = "consume_meal"
  /\ last.status = 200
  /\ last.day = Mon
  /\ last.meal = dinner
  /\ last.entry = [day |-> mon, meal |-> dinner, recipe_id |-> 1, servings |-> 2]
  /\ \E p \in plans : p.id = last.plan_id /\ Len(p.entries) = 2

-----------------------------------------------------------------------------
(* Adding stock and the shopping list *)

\* What generate_shopping_list reports for one key of the demand over the
\* inventory inv: the rounded deficit, or nothing.
Reported(inv, req) ==
  LET deficit == req.quantity - Available(inv, req.key) IN
  IF Emit(deficit) THEN {Round2(deficit)} ELSE {}

\* Over the step, a key that is listed after was listed before, for at least
\* as much.
NotWorse(req) ==
  \A after \in Reported(inventory', req) :
    \E before \in Reported(inventory, req) : after <= before

\* Over the step, no key of any stored plan is worse off.
NoKeyWorse ==
  \A p \in plans : \A n \in 1..Len(Demand(p)) : NotWorse(Demand(p)[n])

\* A step that is an answered add of a positive quantity.
PositiveAddStep ==
  /\ last'.op = "add_inventory"
  /\ last'.status = 201
  /\ last'.payload.quantity > 0

\* A positive add that creates a row, or leaves the unit of the row it
\* merges into as it was (no unit given, or the unit the row has).
UnitKeptStep ==
  /\ PositiveAddStep
  /\ \A it \in ItemsNamed(inventory, normalize_name(last'.payload.name)) :
       OrElse(last'.body.unit, <<>>) = OrElse(it.unit, <<>>)

\* C17, as stated: after an add of a positive quantity, whatever its name
\* and unit, every key of the shopping list has a deficit at most the one it
\* had before, and no key appears that was not listed.
C17_AddNeverWorsens == [][PositiveAddStep => NoKeyWorse]_vars

\* C17, amended: the same, for an add that creates a row or leaves the unit
\* of the row it merges into unchanged.
C17_AddKeepingUnitNeverWorsens == [][UnitKeptStep => NoKeyWorse]_vars

\* C17's case: oil was added without unit to the row stored under "cup",
\* doubling it, against a plan that needs more oil by the cup than the row
\* held.
C17_Witness ==
  /\ last.op = "add_inventory"
  /\ last.status = 201
  /\ last.payload.name = Oil
  /\ last.payload.unit = None
  /\ last.payload.quantity = QScale
  /\ last.body.unit = cup
  /\ last.body.quantity = 2 * QScale
  /\ \E p \in plans : \E n \in 1..Len(Demand(p)) :
       /\ Demand(p)[n].key = KeyOf(normalize_name(Oil), cup)
       /\ Demand(p)[n].quantity > QScale

====
